---- MODULE Spec2Model ----
(***************************************************************************)
(* Model of the self-healing supervisor of src/self_healing.py: the        *)
(* process controller (start_uvicorn, stop_uvicorn, restart_component),    *)
(* the health prober, the exit-trigger listener and monitor_and_recover.   *)
(* Time is counted in units of one second; every blocking call of the code *)
(* (requests.get, Popen.wait, time.sleep) advances it one unit per step.   *)
(***************************************************************************)
EXTENDS Integers, Sequences, FiniteSets, TLC

\* ---------------------------------------------------------------- bounds
MaxIter == 6        \* health probes performed in one run of the loop
MaxSpawn == 2       \* processes Popen can create before it fails
MaxTriggers == 2    \* POST /trigger_exit requests served
MaxCalls == 3       \* direct restart_component calls of a controller client
MaxStatus == 599    \* largest HTTP status code the health endpoint answers with

\* ------------------------------------------------------ program constants
MAX_RETRIES == 5
INITIAL_BACKOFF == 2
PROBE_TIMEOUT == 5
STOP_TIMEOUT == 10
SETTLE_DELAY == 5
SLEEP_STEPS == 10
SLEEP_UNIT == 1

\* the inter-probe interval slept at the end of an iteration
INTER_PROBE == SLEEP_STEPS * SLEEP_UNIT

\* the clock that measures time since the exit request saturates here
SinceCap == INTER_PROBE + 1

None == 0

VARIABLES
    uvicorn_process,  \* global handle: None or the id of a spawned process
    running,          \* ids of spawned processes that have not exited
    spawned,          \* number of processes spawned so far
    start_result,     \* which return of start_uvicorn the last call took
    exit_triggered,   \* global flag
    listening,        \* the exit-trigger server thread has been started
    retry_count, backoff, prev_healthy, current_healthy,  \* loop locals
    pc,               \* position of the main / monitor thread
    caller,           \* who called the controller operation in progress
    timer,            \* units elapsed in the current blocking call
    i,                \* index of the inter-probe sleep loop
    probes,           \* history: result of every probe (TRUE = Healthy)
    counts,           \* history: retry_count after each probe
    backoffs,         \* history: backoff at the end of each iteration
    slept,            \* history: backoff sleep of each iteration (0: none)
    restartIters,     \* iterations in which restart_component was called
    logIters,         \* iterations that emitted a health-transition line
    escalateIters,    \* iterations that emitted the escalation line
    restart_calls,    \* calls of restart_component
    acks,             \* acknowledgements returned by trigger_exit
    terminations,     \* returns of monitor_and_recover
    sinceExit,        \* units elapsed since exit_triggered became true
    response,         \* outcome of requests.get handed to the prober alone
    verdict           \* what the prober alone returned for it

ctl == <<uvicorn_process, running, spawned, start_result>>
probe == <<response, verdict>>
locals == <<retry_count, backoff, prev_healthy, current_healthy>>
hist == <<probes, counts, backoffs, slept, restartIters, logIters, escalateIters>>
vars == <<uvicorn_process, running, spawned, start_result, exit_triggered, listening,
          retry_count, backoff, prev_healthy, current_healthy, pc, caller,
          timer, i, probes, counts, backoffs, slept, restartIters, logIters,
          escalateIters, restart_calls, acks, terminations, sinceExit,
          response, verdict>>

\* ------------------------------------------------------------ pure parts

\* Popen.poll() is None on the held handle
PollIsNoneAlwaysFalse(h, run) == FALSE
PollIsNone(h, run) == h # None /\ h \in run

\* the guard of start_uvicorn and stop_uvicorn
IsRunning(h, run) == PollIsNone(h, run)

\* outcomes of requests.get: a status code, a timeout, a transport error
TIMEOUT == -1
CONN_ERROR == -2
NoResponse == -3
ProbeOutcomes == {200, 204, 500, TIMEOUT, CONN_ERROR}

is_component_healthy_2xx(outcome) == outcome \in 200..299
is_component_healthy(outcome) == outcome = 200

\* what requests.get can produce: every status code, a timeout, an error
StatusCodes == 100..MaxStatus
Responses == StatusCodes \cup {TIMEOUT, CONN_ERROR}

\* retry_count += 1
FailureCountStopsAtCap(rc) == IF rc >= MAX_RETRIES THEN rc ELSE rc + 1
FailureCount(rc) == rc + 1

\* not (retry_count > MAX_RETRIES)
UnderCapOffByOne(rc) == rc < MAX_RETRIES
UnderCapLate(rc) == ~(rc > MAX_RETRIES + 1)
UnderCap(rc) == ~(rc > MAX_RETRIES)

\* backoff *= 2
NextBackoffLinear(b) == b + INITIAL_BACKOFF
NextBackoffTriples(b) == b * 3
NextBackoff(b) == b * 2

\* backoff = INITIAL_BACKOFF on a healthy probe
ResetBackoffKeeps(b) == b
ResetBackoff(b) == INITIAL_BACKOFF

\* the two logging conditions on (current_healthy, prev_healthy)
LogsTransitionEdgesOnly(cur, prev) ==
    \/ cur /\ prev = "False"
    \/ ~cur /\ prev = "True"
LogsTransition(cur, prev) ==
    \/ cur /\ prev # "True"
    \/ ~cur /\ prev # "False"

\* the loop continues into the inter-probe sleep after the escalation
AfterEscalationBreaks == "done"
AfterEscalation == "sleep_check"

\* exit_triggered = True
FlagAfterTriggerToggles(flag) == ~flag
FlagAfterTrigger(flag) == TRUE

\* value of sinceExit in a run that does not measure the time since the request
NoClock == -1

Tick ==
    IF sinceExit # NoClock /\ exit_triggered /\ sinceExit < SinceCap
    THEN sinceExit + 1 ELSE sinceExit

\* number of Unhealthy results at the end of a history
RECURSIVE TrailingUnhealthy(_)
TrailingUnhealthy(s) ==
    IF s = <<>> \/ s[Len(s)] THEN 0
    ELSE 1 + TrailingUnhealthy(SubSeq(s, 1, Len(s) - 1))

TypeOK ==
    /\ uvicorn_process \in 0..(MaxSpawn + 1)
    /\ running \subseteq 1..(MaxSpawn + 1)
    /\ exit_triggered \in BOOLEAN
    /\ prev_healthy \in {"None", "True", "False"}
    /\ pc \in {"init", "top", "probing", "stop_wait", "settle", "backoff_sleep",
               "sleep_check", "sleep_nap", "done", "idle", "probe"}

InitWith(start, clock) ==
    /\ uvicorn_process = None
    /\ running = {}
    /\ spawned = 0
    /\ start_result = "not_called"
    /\ exit_triggered = FALSE
    /\ listening = FALSE
    /\ retry_count = 0
    /\ backoff = INITIAL_BACKOFF
    /\ prev_healthy = "None"
    /\ current_healthy = "None"
    /\ pc = start
    /\ caller = "none"
    /\ timer = 0
    /\ i = 0
    /\ probes = <<>>
    /\ counts = <<>>
    /\ backoffs = <<>>
    /\ slept = <<>>
    /\ restartIters = {}
    /\ logIters = {}
    /\ escalateIters = {}
    /\ restart_calls = 0
    /\ acks = 0
    /\ terminations = 0
    /\ sinceExit = clock

InitAt(start) == InitWith(start, 0)

\* the state after the module has been loaded
Init ==
    /\ InitAt("init")
    /\ response = NoResponse
    /\ verdict = "None"

\* ------------------------------------------------------ process controller

\* start_uvicorn(): no-op on a running handle, else Popen, which may raise
start_uvicorn_leaks(ok) ==
    IF IsRunning(uvicorn_process, running)
    THEN /\ start_result' = "already_running"
         /\ UNCHANGED <<uvicorn_process, running, spawned>>
    ELSE IF ok /\ spawned < MaxSpawn
         THEN /\ spawned' = spawned + 1
              /\ uvicorn_process' = spawned + 1
              /\ running' = running \cup {spawned + 1}
              /\ start_result' = "started"
         ELSE /\ start_result' = "failed"
              /\ running' = running \cup {spawned + 1}
              /\ UNCHANGED <<uvicorn_process, spawned>>
start_uvicorn(ok) ==
    IF IsRunning(uvicorn_process, running)
    THEN /\ start_result' = "already_running"
         /\ UNCHANGED <<uvicorn_process, running, spawned>>
    ELSE IF ok /\ spawned < MaxSpawn
         THEN /\ spawned' = spawned + 1
              /\ uvicorn_process' = spawned + 1
              /\ running' = running \cup {spawned + 1}
              /\ start_result' = "started"
         ELSE /\ start_result' = "failed"
              /\ UNCHANGED <<uvicorn_process, running, spawned>>

\* where stop_uvicorn returns to
AfterStop(c) == IF c = "stop" THEN "idle" ELSE "settle"

\* stop_uvicorn() up to its blocking wait: terminate() on a running handle
stop_uvicorn(c) ==
    /\ pc' = IF IsRunning(uvicorn_process, running) THEN "stop_wait" ELSE AfterStop(c)
    /\ caller' = IF pc' = "idle" THEN "none" ELSE c
    /\ timer' = 0

\* restart_component() up to the first blocking call
restart_component(c) ==
    /\ restart_calls' = restart_calls + 1
    /\ stop_uvicorn(c)

\* uvicorn_process.wait(timeout=10): one more unit with the process running
StopWaitTick ==
    /\ pc = "stop_wait"
    /\ uvicorn_process \in running
    /\ timer < STOP_TIMEOUT
    /\ timer' = timer + 1
    /\ sinceExit' = Tick
    /\ UNCHANGED <<ctl, exit_triggered, listening, locals, pc, caller, i, hist,
                   restart_calls, acks, terminations>>
    /\ UNCHANGED probe

\* the except clause of stop_uvicorn only logs: the process is left as it is
RunningAfterWaitKills(run, h) == run \ {h}
RunningAfterWait(run, h) == run

\* wait returns (the process exited) or raises TimeoutExpired, which is logged
StopWaitDone ==
    /\ pc = "stop_wait"
    /\ uvicorn_process \notin running \/ timer = STOP_TIMEOUT
    /\ running' = RunningAfterWait(running, uvicorn_process)
    /\ pc' = AfterStop(caller)
    /\ caller' = IF pc' = "idle" THEN "none" ELSE caller
    /\ timer' = 0
    /\ UNCHANGED <<uvicorn_process, spawned, start_result, exit_triggered, listening, locals, i, hist,
                   restart_calls, acks, terminations, sinceExit>>
    /\ UNCHANGED probe

\* time.sleep(5) of restart_component
SettleTick ==
    /\ pc = "settle"
    /\ timer < SETTLE_DELAY
    /\ timer' = timer + 1
    /\ sinceExit' = Tick
    /\ UNCHANGED <<ctl, exit_triggered, listening, locals, pc, caller, i, hist,
                   restart_calls, acks, terminations>>
    /\ UNCHANGED probe

\* start_uvicorn() of restart_component, then the return to the caller
SettleDone ==
    /\ pc = "settle"
    /\ timer = SETTLE_DELAY
    /\ \E ok \in BOOLEAN : start_uvicorn(ok)
    /\ pc' = IF caller = "monitor" THEN "backoff_sleep" ELSE "idle"
    /\ caller' = "none"
    /\ timer' = 0
    /\ UNCHANGED <<exit_triggered, listening, locals, i, hist,
                   restart_calls, acks, terminations, sinceExit>>
    /\ UNCHANGED probe

\* the supervised process exits (on its own, or after terminate())
ProcessExit ==
    /\ \E p \in running : running' = running \ {p}
    /\ UNCHANGED <<uvicorn_process, spawned, start_result, exit_triggered,
                   listening, locals, pc, caller, timer, i, hist, restart_calls, acks,
                   terminations, sinceExit>>
    /\ UNCHANGED probe

\* -------------------------------------------------------- exit listener

\* POST /trigger_exit
trigger_exit ==
    /\ listening
    /\ pc # "done"
    /\ acks < MaxTriggers
    /\ exit_triggered' = FlagAfterTrigger(exit_triggered)
    /\ acks' = acks + 1
    /\ UNCHANGED <<ctl, listening, locals, pc, caller, timer, i, hist,
                   restart_calls, terminations, sinceExit>>
    /\ UNCHANGED probe

\* ---------------------------------------------------------- entry points

\* self_healing.py run as a program: start_uvicorn, listener thread, monitor
Main ==
    /\ pc = "init"
    /\ \E ok \in BOOLEAN : start_uvicorn(ok)
    /\ listening' = TRUE
    /\ retry_count' = 0
    /\ backoff' = INITIAL_BACKOFF
    /\ prev_healthy' = "None"
    /\ pc' = "top"
    /\ UNCHANGED <<exit_triggered, current_healthy, caller, timer, i, hist,
                   restart_calls, acks, terminations, sinceExit>>
    /\ UNCHANGED probe

\* control_center.launch_self_healing: only the monitor, in a thread
launch_self_healing ==
    /\ pc = "init"
    /\ retry_count' = 0
    /\ backoff' = INITIAL_BACKOFF
    /\ prev_healthy' = "None"
    /\ pc' = "top"
    /\ UNCHANGED <<ctl, exit_triggered, listening, current_healthy, caller,
                   timer, i, hist, restart_calls, acks, terminations, sinceExit>>
    /\ UNCHANGED probe

\* ------------------------------------------------------- monitor_and_recover

\* the number of the iteration whose probe is in flight
Iter == Len(probes) + 1

\* break / return on the exit flag: the loop ends, nothing else is touched
ExitReturnStopsProcess ==
    /\ pc' = "done"
    /\ terminations' = terminations + 1
    /\ running' = running \ {uvicorn_process}
    /\ UNCHANGED <<uvicorn_process, spawned, start_result>>
ExitReturn ==
    /\ pc' = "done"
    /\ terminations' = terminations + 1
    /\ UNCHANGED ctl

\* top of the while loop: the exit check, then the call of the prober
CheckExit ==
    /\ pc = "top"
    /\ IF exit_triggered
       THEN /\ ExitReturn
            /\ UNCHANGED timer
       ELSE /\ Len(probes) < MaxIter
            /\ pc' = "probing"
            /\ timer' = 0
            /\ UNCHANGED <<ctl, terminations>>
    /\ UNCHANGED <<exit_triggered, listening, locals, caller, i, hist,
                   restart_calls, acks, sinceExit>>
    /\ UNCHANGED probe

\* requests.get(..., timeout=5) has not answered yet
ProbeTick ==
    /\ pc = "probing"
    /\ timer < PROBE_TIMEOUT
    /\ timer' = timer + 1
    /\ sinceExit' = Tick
    /\ UNCHANGED <<ctl, exit_triggered, listening, locals, pc, caller, i, hist,
                   restart_calls, acks, terminations>>
    /\ UNCHANGED probe

\* the probe can end this way now: a timeout only once the limit has elapsed
ProbeEnds(outcome) ==
    /\ pc = "probing"
    /\ outcome = TIMEOUT => timer = PROBE_TIMEOUT

\* a healthy probe: log on change, reset the counters, go to the sleep loop
ProbeHealthy ==
    \E outcome \in ProbeOutcomes :
        /\ ProbeEnds(outcome)
        /\ is_component_healthy(outcome)
        /\ current_healthy' = "True"
        /\ logIters' = IF LogsTransition(TRUE, prev_healthy)
                       THEN logIters \cup {Iter} ELSE logIters
        /\ retry_count' = 0
        /\ backoff' = ResetBackoff(backoff)
        /\ prev_healthy' = "True"
        /\ probes' = Append(probes, TRUE)
        /\ counts' = Append(counts, retry_count')
        /\ backoffs' = Append(backoffs, backoff')
        /\ slept' = Append(slept, 0)
        /\ pc' = "sleep_check"
        /\ i' = 0
        /\ timer' = 0
        /\ UNCHANGED <<ctl, exit_triggered, listening, caller, restartIters,
                       escalateIters, restart_calls, acks, terminations, sinceExit>>
        /\ UNCHANGED probe

\* an unhealthy probe past the retry cap: the escalation line, no restart
ProbeEscalate ==
    \E outcome \in ProbeOutcomes :
        /\ ProbeEnds(outcome)
        /\ ~is_component_healthy(outcome)
        /\ current_healthy' = "False"
        /\ logIters' = IF LogsTransition(FALSE, prev_healthy)
                       THEN logIters \cup {Iter} ELSE logIters
        /\ retry_count' = FailureCount(retry_count)
        /\ ~UnderCap(retry_count')
        /\ escalateIters' = escalateIters \cup {Iter}
        /\ prev_healthy' = "False"
        /\ probes' = Append(probes, FALSE)
        /\ counts' = Append(counts, retry_count')
        /\ backoffs' = Append(backoffs, backoff)
        /\ slept' = Append(slept, 0)
        /\ pc' = AfterEscalation
        /\ i' = 0
        /\ timer' = 0
        /\ UNCHANGED <<ctl, exit_triggered, listening, backoff, caller,
                       restartIters, restart_calls, acks, terminations, sinceExit>>
        /\ UNCHANGED probe

\* an unhealthy probe under the cap: restart_component is called
ProbeRestart ==
    \E outcome \in ProbeOutcomes :
        /\ ProbeEnds(outcome)
        /\ ~is_component_healthy(outcome)
        /\ current_healthy' = "False"
        /\ logIters' = IF LogsTransition(FALSE, prev_healthy)
                       THEN logIters \cup {Iter} ELSE logIters
        /\ retry_count' = FailureCount(retry_count)
        /\ UnderCap(retry_count')
        /\ restartIters' = restartIters \cup {Iter}
        /\ probes' = Append(probes, FALSE)
        /\ counts' = Append(counts, retry_count')
        /\ restart_component("monitor")
        /\ UNCHANGED <<ctl, exit_triggered, listening, backoff, prev_healthy, i,
                       backoffs, slept, escalateIters, acks, terminations, sinceExit>>
        /\ UNCHANGED probe

\* the argument of time.sleep(backoff): backoff as it is before the doubling
SleepArgAfterDoubling(b) == NextBackoff(b)
SleepArg(b) == b

\* time.sleep(backoff)
BackoffTick ==
    /\ pc = "backoff_sleep"
    /\ timer < SleepArg(backoff)
    /\ timer' = timer + 1
    /\ sinceExit' = Tick
    /\ UNCHANGED <<ctl, exit_triggered, listening, locals, pc, caller, i, hist,
                   restart_calls, acks, terminations>>
    /\ UNCHANGED probe

\* the sleep is over: backoff *= 2, prev_healthy = current_healthy
BackoffDone ==
    /\ pc = "backoff_sleep"
    /\ timer = SleepArg(backoff)
    /\ backoff' = NextBackoff(backoff)
    /\ prev_healthy' = current_healthy
    /\ backoffs' = Append(backoffs, backoff')
    /\ slept' = Append(slept, SleepArg(backoff))
    /\ pc' = "sleep_check"
    /\ i' = 0
    /\ timer' = 0
    /\ UNCHANGED <<ctl, exit_triggered, listening, retry_count, current_healthy,
                   caller, probes, counts, restartIters, logIters, escalateIters,
                   restart_calls, acks, terminations, sinceExit>>
    /\ UNCHANGED probe

\* for _ in range(10): the exit check of one round
SleepCheck ==
    /\ pc = "sleep_check"
    /\ IF exit_triggered
       THEN ExitReturn
       ELSE /\ pc' = "sleep_nap"
            /\ UNCHANGED <<ctl, terminations>>
    /\ timer' = 0
    /\ UNCHANGED <<exit_triggered, listening, locals, caller, i, hist,
                   restart_calls, acks, sinceExit>>
    /\ UNCHANGED probe

\* after a round of the sleep loop: its next round, which starts with the
\* exit check, or the top of the while loop
AfterNapNeverLeaves(idx) == "sleep_nap"
AfterNapSkipsCheck(idx) == IF idx + 1 = SLEEP_STEPS THEN "top" ELSE "sleep_nap"
AfterNap(idx) == IF idx + 1 = SLEEP_STEPS THEN "top" ELSE "sleep_check"

\* time.sleep(1) of one round, then the next round or the next iteration
SleepNap ==
    /\ pc = "sleep_nap"
    /\ sinceExit' = Tick
    /\ IF timer + 1 < SLEEP_UNIT
       THEN /\ timer' = timer + 1
            /\ UNCHANGED <<pc, i>>
       ELSE /\ timer' = 0
            /\ i' = IF i + 1 = SLEEP_STEPS THEN 0 ELSE i + 1
            /\ pc' = AfterNap(i)
    /\ UNCHANGED <<ctl, exit_triggered, listening, locals, caller, hist,
                   restart_calls, acks, terminations>>
    /\ UNCHANGED probe

Next ==
    \/ Main
    \/ launch_self_healing
    \/ CheckExit
    \/ ProbeTick
    \/ ProbeHealthy
    \/ ProbeEscalate
    \/ ProbeRestart
    \/ StopWaitTick
    \/ StopWaitDone
    \/ SettleTick
    \/ SettleDone
    \/ BackoffTick
    \/ BackoffDone
    \/ SleepCheck
    \/ SleepNap
    \/ ProcessExit
    \/ trigger_exit

Spec == Init /\ [][Next]_vars

\* the steps of the thread that runs monitor_and_recover
MonitorStep ==
    \/ CheckExit
    \/ ProbeTick
    \/ ProbeHealthy
    \/ ProbeEscalate
    \/ ProbeRestart
    \/ StopWaitTick
    \/ StopWaitDone
    \/ SettleTick
    \/ SettleDone
    \/ BackoffTick
    \/ BackoffDone
    \/ SleepCheck
    \/ SleepNap

\* the monitor thread is scheduled, and each of its blocking calls returns
\* the same start as Init, without the measure of the time since the request
InitFair ==
    /\ InitWith("init", NoClock)
    /\ response = NoResponse
    /\ verdict = "None"

SpecFair == InitFair /\ [][Next]_vars /\ WF_vars(MonitorStep)

\* ------------------------------------- a client of the process controller

InitPC ==
    /\ InitAt("idle")
    /\ response = NoResponse
    /\ verdict = "None"

DriverStart ==
    /\ pc = "idle"
    /\ \E ok \in BOOLEAN : start_uvicorn(ok)
    /\ UNCHANGED <<exit_triggered, listening, locals, pc, caller, timer, i, hist,
                   restart_calls, acks, terminations, sinceExit>>
    /\ UNCHANGED probe

DriverStop ==
    /\ pc = "idle"
    /\ stop_uvicorn("stop")
    /\ UNCHANGED <<ctl, exit_triggered, listening, locals, i, hist,
                   restart_calls, acks, terminations, sinceExit>>
    /\ UNCHANGED probe

DriverRestart ==
    /\ pc = "idle"
    /\ restart_calls < MaxCalls
    /\ restart_component("restart")
    /\ UNCHANGED <<ctl, exit_triggered, listening, locals, i, hist,
                   acks, terminations, sinceExit>>
    /\ UNCHANGED probe

NextPC ==
    \/ DriverStart
    \/ DriverStop
    \/ DriverRestart
    \/ StopWaitTick
    \/ StopWaitDone
    \/ SettleTick
    \/ SettleDone
    \/ ProcessExit

SpecPC == InitPC /\ [][NextPC]_vars

\* ------------------------------------------------ the health prober alone

InitProbe ==
    /\ InitAt("probe")
    /\ response \in Responses
    /\ verdict = "None"

\* one call of is_component_healthy() on the given outcome of requests.get
ProbeAlone ==
    /\ pc = "probe"
    /\ verdict = "None"
    /\ verdict' = IF is_component_healthy(response) THEN "True" ELSE "False"
    /\ UNCHANGED <<ctl, exit_triggered, listening, locals, pc, caller, timer, i,
                   hist, restart_calls, acks, terminations, sinceExit, response>>

NextProbe == ProbeAlone

SpecProbe == InitProbe /\ [][NextProbe]_vars

\* ------------------------------------------------------------- properties

\* backoff held when iteration k began
BackoffBefore(k) == IF k = 1 THEN INITIAL_BACKOFF ELSE backoffs[k - 1]

\* C1: retry_count equals the number of Unhealthy probe results since the
\* most recent Healthy one (or since the loop started), also past MAX_RETRIES.
C1_RetryCountIsTrailingUnhealthy ==
    retry_count = TrailingUnhealthy(probes)

\* a run of failures has passed the cap and the loop is in its sleep loop
C1_Witness ==
    /\ retry_count > MAX_RETRIES
    /\ pc = "sleep_nap"

\* C2 as stated: every Unhealthy iteration doubles backoff, also past the
\* retry cap, and every Healthy iteration sets it to INITIAL_BACKOFF.
C2_Original ==
    \A k \in 1..Len(backoffs) :
        backoffs[k] = IF probes[k] THEN INITIAL_BACKOFF ELSE 2 * BackoffBefore(k)

\* C2 amended: an Unhealthy iteration doubles backoff exactly when retry_count
\* after the increment is at most MAX_RETRIES and leaves it unchanged past the
\* cap; a Healthy iteration sets it to INITIAL_BACKOFF.
C2_DoublesOnlyUnderCap ==
    \A k \in 1..Len(backoffs) :
        backoffs[k] = IF probes[k] THEN INITIAL_BACKOFF
                      ELSE IF counts[k] <= MAX_RETRIES THEN 2 * BackoffBefore(k)
                      ELSE BackoffBefore(k)

\* a run of failures doubled the backoff five times and then passed the cap
C2_Witness ==
    \E k \in 1..Len(backoffs) :
        /\ counts[k] > MAX_RETRIES
        /\ backoffs[k] = INITIAL_BACKOFF * 2 * 2 * 2 * 2 * 2

\* C3: restart_component is called in an iteration if and only if its probe
\* was Unhealthy and retry_count after the increment is at most MAX_RETRIES;
\* every call of restart_component belongs to an iteration.
C3_RestartIffUnhealthyUnderCap ==
    /\ \A k \in 1..Len(probes) :
           k \in restartIters <=> (~probes[k] /\ counts[k] <= MAX_RETRIES)
    /\ restartIters \subseteq 1..Len(probes)
    /\ restart_calls = Cardinality(restartIters)

\* restarts were issued, and a failure past the cap was not followed by one
C3_Witness ==
    /\ Cardinality(restartIters) = MAX_RETRIES
    /\ \E k \in 1..Len(probes) : counts[k] > MAX_RETRIES /\ k \notin restartIters

\* C4: once exit_triggered is true no further call of restart_component is
\* made, whatever the interleaving of the trigger with the loop.
C4_NoRestartAfterExit ==
    [][exit_triggered => restart_calls' = restart_calls]_vars

\* C5: while exit_triggered is true and the loop has not returned, at most
\* one inter-probe interval (10 units) has elapsed since the flag was set.
C5_ExitWithinInterval ==
    (exit_triggered /\ pc # "done") => sinceExit <= INTER_PROBE

\* C6: at most one spawned process is running, and it is the held handle.
C6_AtMostOneLive ==
    /\ Cardinality(running) <= 1
    /\ running \subseteq {uvicorn_process}

\* a second process was spawned after the first had been stopped, and is live
C6_Witness ==
    /\ pc = "idle"
    /\ spawned >= 2
    /\ uvicorn_process = spawned
    /\ running = {spawned}

\* C7: monitor_and_recover returns only from one of its two exit checks with
\* exit_triggered true; an iteration that escalates goes on to the sleep loop.
C7_ReturnsOnlyOnExitFlag ==
    [][/\ (pc' = "done" /\ pc # "done") =>
              (exit_triggered /\ pc \in {"top", "sleep_check"})
       /\ escalateIters' # escalateIters => pc' = "sleep_check"]_vars

\* past the retry cap, no live process, no exit request: the loop is back at
\* the top of its next cycle
C7_Witness ==
    /\ pc = "top"
    /\ retry_count > MAX_RETRIES
    /\ running = {}
    /\ ~exit_triggered

\* C8 as stated: a transition line is emitted exactly on a Healthy/Unhealthy
\* edge between consecutive probes, and never for the first probe.
C8_Original ==
    \A k \in 1..Len(probes) :
        k \in logIters <=> (k > 1 /\ probes[k] # probes[k - 1])

\* C8 amended: a transition line is emitted exactly when the probe result
\* differs from the previous one, the first probe (previous state Unknown)
\* included; none is emitted when the result repeats.
C8_LogOnChangeOrFirst ==
    \A k \in 1..Len(probes) :
        k \in logIters <=> (k = 1 \/ probes[k] # probes[k - 1])

\* an edge in each direction and a repeated result have been observed
C8_Witness ==
    /\ \E k \in 2..Len(probes) : probes[k] /\ ~probes[k - 1]
    /\ \E k \in 2..Len(probes) : ~probes[k] /\ probes[k - 1]
    /\ \E k \in 2..Len(probes) : probes[k] = probes[k - 1] /\ k \notin logIters

\* the scenario of C9 has run to the end of its fourth iteration
Scenario ==
    /\ Len(backoffs) >= 4
    /\ SubSeq(probes, 1, 4) = <<TRUE, FALSE, FALSE, TRUE>>

\* C9 as stated: for probes Healthy, Unhealthy, Unhealthy, Healthy the backoff
\* at the end of iterations 1..4 is 2, 2, 4, 2, restarts in iterations 2 and 3.
C9_Original ==
    Scenario =>
        /\ SubSeq(backoffs, 1, 4) = <<2, 2, 4, 2>>
        /\ restartIters \cap 1..4 = {2, 3}

\* C9 amended: the backoff at the end of iterations 1..4 is 2, 4, 8, 2 (the
\* backoff sleeps of iterations 2 and 3 last 2 and 4), restarts in 2 and 3 only.
C9_ScenarioBackoffs ==
    Scenario =>
        /\ SubSeq(backoffs, 1, 4) = <<2, 4, 8, 2>>
        /\ SubSeq(slept, 1, 4) = <<0, 2, 4, 0>>
        /\ restartIters \cap 1..4 = {2, 3}

C9_Witness ==
    /\ Scenario
    /\ restart_calls = 2

\* C10: exit_triggered starts false and never goes back to false, every
\* trigger_exit call leaves it true and is acknowledged, and the monitor loop
\* returns at most once.
C10_ExitFlagWriteOnce ==
    /\ ~exit_triggered
    /\ [][/\ exit_triggered => exit_triggered'
          /\ acks' # acks => (acks' = acks + 1 /\ exit_triggered')
          /\ terminations' <= 1
          /\ pc' = "done" => terminations' = 1]_vars

\* two triggers were acknowledged and the loop has returned
C10_Witness ==
    /\ acks = 2
    /\ exit_triggered
    /\ pc = "done"
    /\ terminations = 1

\* a call of start_uvicorn returns in this step
StartReturns ==
    /\ pc \in {"settle", "init"}
    /\ pc' # pc
    /\ start_result' # "not_called"

\* the probe of a new iteration is Unhealthy in this step
NewUnhealthy == Len(probes') = Len(probes) + 1 /\ ~probes'[Len(probes')]

\* C11: when restart_component completes and its spawn did not fail, the held
\* handle is a newly spawned running process, different from the one held
\* before, also after a termination that outlasted the grace period.
C11_RestartReplacesHandle ==
    [][(pc = "settle" /\ pc' # "settle" /\ start_result' # "failed") =>
           (uvicorn_process' # uvicorn_process /\ uvicorn_process' \in running')]_vars

\* C12 as stated: a failed spawn is not propagated, leaves no handle and no
\* live process, and every later iteration with an Unhealthy probe restarts.
C12_Original ==
    [][/\ (StartReturns /\ start_result' = "failed") =>
              /\ running' = {}
              /\ UNCHANGED <<uvicorn_process, running, spawned>>
              /\ pc' \in {"top", "backoff_sleep"}
       /\ (start_result = "failed" /\ NewUnhealthy) =>
              restart_calls' = restart_calls + 1]_vars

\* C12 amended: a failed spawn is not propagated, leaves no new handle and no
\* live process, and every later iteration whose probe is Unhealthy with
\* retry_count after the increment at most MAX_RETRIES restarts again.
C12_FailedSpawnRetriedUnderCap ==
    [][/\ (StartReturns /\ start_result' = "failed") =>
              /\ running' = {}
              /\ UNCHANGED <<uvicorn_process, running, spawned>>
              /\ pc' \in {"top", "backoff_sleep"}
       /\ (start_result = "failed" /\ NewUnhealthy /\ retry_count' <= MAX_RETRIES) =>
              restart_calls' = restart_calls + 1]_vars

\* the spawn of the previous restart failed and a restart is under way again
C12_Witness ==
    /\ start_result = "failed"
    /\ restart_calls >= 2
    /\ pc = "settle"

\* C13: stop_uvicorn changes nothing without a running handle; with one it
\* waits at most STOP_TIMEOUT units, and on a timeout it returns with the
\* process still running and the handle unchanged; it never kills.
C13_StopOnlyAsksAndWaits ==
    [][/\ pc = "stop_wait" => timer <= STOP_TIMEOUT
       /\ pc = "stop_wait" => uvicorn_process' = uvicorn_process
       /\ (pc = "idle" /\ caller' = "stop") =>
              (IsRunning(uvicorn_process, running) /\ pc' = "stop_wait" /\ UNCHANGED ctl)
       /\ (pc = "idle" /\ pc' = "settle") =>
              (~IsRunning(uvicorn_process, running) /\ UNCHANGED ctl)
       /\ (pc = "stop_wait" /\ pc' # "stop_wait") =>
              /\ UNCHANGED ctl
              /\ pc' = AfterStop(caller)
              /\ uvicorn_process \in running => timer = STOP_TIMEOUT]_vars

\* a stop_uvicorn call has waited the whole grace period in vain
C13_Witness ==
    /\ pc = "stop_wait"
    /\ caller = "stop"
    /\ timer = STOP_TIMEOUT
    /\ uvicorn_process \in running

\* C14 as stated: the prober answers Healthy exactly for a 200-class status and
\* Unhealthy for every other outcome.
C14_Original ==
    verdict # "None" => (verdict = "True" <=> response \in 200..299)

\* C14 amended: the prober answers Healthy exactly for status 200 and
\* Unhealthy for every other status, a timeout or a transport error; every
\* outcome yields one of the two answers.
C14_HealthyIffStatus200 ==
    verdict # "None" =>
        /\ verdict \in {"True", "False"}
        /\ verdict = "True" <=> response = 200

\* a 200-class status other than 200 was answered Unhealthy
C14_Witness ==
    /\ response = 204
    /\ verdict = "False"

\* C15: the step in which the loop returns leaves the handle and the
\* supervised process as they are, and calls no controller operation.
C15_ExitLeavesProcess ==
    [][(pc' = "done" /\ pc # "done") =>
           (UNCHANGED ctl /\ caller' = caller /\ restart_calls' = restart_calls)]_vars

\* the loop has returned and the supervised process is still running
C15_Witness ==
    /\ pc = "done"
    /\ uvicorn_process \in running

\* C16: whenever monitor_and_recover is running the exit-trigger listener has
\* been started, so that a trigger_exit call can be served.
C16_ListenerRunsWithLoop ==
    pc \notin {"init", "done"} => listening

\* C17 as stated: in a restarting iteration the backoff sleep lasts the value
\* of backoff after that iteration's doubling.
C17_Original ==
    \A k \in restartIters :
        k <= Len(slept) => slept[k] = backoffs[k]

\* C17 amended: in a restarting iteration retry_count is incremented first,
\* then restart_component runs, then the loop sleeps for backoff, and only
\* then backoff is doubled: the sleep lasts the value before the doubling.
C17_SleepBeforeDoubling ==
    /\ \A k \in restartIters :
           k <= Len(slept) => (slept[k] = BackoffBefore(k) /\ backoffs[k] = 2 * slept[k])
    /\ pc \in {"stop_wait", "settle", "backoff_sleep"} =>
           /\ Len(probes) \in restartIters
           /\ Len(counts) = Len(probes)
           /\ Len(backoffs) = Len(probes) - 1
           /\ retry_count = counts[Len(probes)]
           /\ backoff = BackoffBefore(Len(probes))

\* two restarting iterations in a row have slept and doubled
C17_Witness ==
    \E k \in restartIters :
        /\ k + 1 \in restartIters
        /\ k + 1 <= Len(slept)
        /\ slept[k + 1] = 2 * slept[k]

\* C18: the escalation is emitted exactly on an Unhealthy probe with
\* retry_count past MAX_RETRIES; in a run of consecutive Unhealthy probes the
\* first MAX_RETRIES restart and every later one escalates without a restart.
C18_EscalateIffPastCap ==
    \A k \in 1..Len(probes) :
        LET run == TrailingUnhealthy(SubSeq(probes, 1, k)) IN
        /\ k \in escalateIters <=> (~probes[k] /\ counts[k] > MAX_RETRIES)
        /\ ~probes[k] => (k \in restartIters <=> run <= MAX_RETRIES)
        /\ ~probes[k] => (k \in escalateIters <=> run > MAX_RETRIES)
        /\ ~(k \in restartIters /\ k \in escalateIters)

\* MAX_RETRIES restarts in a row, then the first escalation
C18_Witness ==
    \E k \in escalateIters :
        /\ (k - MAX_RETRIES)..(k - 1) \subseteq restartIters
        /\ k - MAX_RETRIES >= 1
        /\ Cardinality(escalateIters) = 1

\* C19: in the inter-probe sleep every 1-unit sleep is preceded by a read of
\* exit_triggered; with the flag true the loop returns after at most the one
\* sleep that is under way, without a probe or a restart.
C19_SleepLoopHonoursExit ==
    [][/\ (pc' = "sleep_nap" /\ pc # "sleep_nap") =>
              (pc = "sleep_check" /\ ~exit_triggered)
       /\ (pc = "sleep_nap" /\ i' # i) => pc' # "sleep_nap"
       /\ (exit_triggered /\ pc \in {"sleep_check", "sleep_nap", "top"}) =>
              /\ probes' = probes
              /\ restart_calls' = restart_calls
              /\ (pc \in {"sleep_check", "top"} /\ pc' # pc) => pc' = "done"
              /\ (pc = "sleep_nap" /\ pc' # pc) =>
                     (pc' \in {"sleep_check", "top"} /\ sinceExit' <= sinceExit + SLEEP_UNIT)]_vars

\* the flag was set during the sixth 1-unit sleep of a sleep loop
C19_Witness ==
    /\ pc = "done"
    /\ i = 5
    /\ sinceExit = 1

\* C20: once exit_triggered is true the loop eventually returns, and after its
\* return it makes no probe, restart or sleep.
C20_ExitLeadsToReturn ==
    /\ exit_triggered ~> pc = "done"
    /\ [][pc = "done" =>
             /\ pc' = "done"
             /\ UNCHANGED <<probes, restart_calls, timer, i, sinceExit>>]_vars

\* the loop has returned at the first exit check after a restart and its
\* backoff sleep: the flag was set while that iteration was under way
C20_Witness ==
    /\ pc = "done"
    /\ exit_triggered
    /\ i = 0
    /\ Len(probes) \in restartIters
    /\ Len(slept) = Len(probes)

\* 2 to the power n
RECURSIVE Pow2(_)
Pow2(n) == IF n = 0 THEN 1 ELSE 2 * Pow2(n - 1)

\* C21: at the top of every iteration backoff is INITIAL_BACKOFF times 2 to
\* the power min(retry_count, MAX_RETRIES); backoff never exceeds
\* INITIAL_BACKOFF * 2^MAX_RETRIES and no backoff sleep is longer than
\* INITIAL_BACKOFF * 2^(MAX_RETRIES - 1).
C21_BackoffIsPowerOfTwo ==
    /\ pc = "top" =>
           backoff = INITIAL_BACKOFF *
                     Pow2(IF retry_count < MAX_RETRIES THEN retry_count ELSE MAX_RETRIES)
    /\ backoff <= INITIAL_BACKOFF * Pow2(MAX_RETRIES)
    /\ \A k \in 1..Len(slept) : slept[k] <= INITIAL_BACKOFF * Pow2(MAX_RETRIES - 1)
    /\ pc = "backoff_sleep" => timer <= INITIAL_BACKOFF * Pow2(MAX_RETRIES - 1)

\* past the cap at the top of an iteration: backoff at its maximum, and the
\* longest backoff sleep has been performed
C21_Witness ==
    /\ pc = "top"
    /\ retry_count > MAX_RETRIES
    /\ backoff = INITIAL_BACKOFF * Pow2(MAX_RETRIES)
    /\ \E k \in 1..Len(slept) : slept[k] = INITIAL_BACKOFF * Pow2(MAX_RETRIES - 1)
====
